---- MODULE Spec2Model ----
(***************************************************************************)
(* Model of check_transaction.py, the Caudena transaction checker CLI:     *)
(* credential loading, token generation, the HTTP client wrapper, the two  *)
(* lookup functions and the report formatters.                             *)
(*                                                                         *)
(* Python strings that the program takes apart (configuration lines, keys, *)
(* credential values) are sequences of one-character strings.  Python      *)
(* dicts are functions whose DOMAIN is the set of keys present, so that an *)
(* absent key and dict.get's default are what the code makes of them.      *)
(***************************************************************************)
EXTENDS Integers, Sequences, FiniteSets, TLC

VARIABLES
    mode,       \* args: "hash" or "address" (exactly one of --hash, --address)
    environ,    \* os.environ restricted to CAUDENA_KID and CAUDENA_SECRET
    fs,         \* the three candidate configuration files
    pc,         \* position of the process in main()
    creds,      \* what get_api_credentials produced
    token,      \* the generated token (its claims and key), NoToken before
    net,        \* the HTTP requests issued and responses received, in order
    stdout,     \* the lines printed, in order
    exitCode,   \* the exit status the process ends with (0 unless sys.exit or an uncaught exception sets it)
    exc,        \* the exception that left the function under study, or "none"
    arg,        \* the argument of the function a pure-function specification applies
    ret         \* the value that function returned

vars == <<mode, environ, fs, pc, creds, token, net, stdout, exitCode, exc, arg, ret>>

-----------------------------------------------------------------------------
(* Bounds of the explored inputs. *)

\* longest credential value written in a configuration line
MaxValLen == 2
\* longest input or output list of a transaction payload
MaxEntries == 4
\* longest transaction list of an address response
MaxTx == 7

-----------------------------------------------------------------------------
(* Python values. *)

\* Python's None, where a string (a sequence of characters) is expected
None == <<"None">>

\* truthiness of an Optional[str]: None and "" are falsy
Truthy(s) == s # None /\ s # <<>>

\* a or b or c ...: the first truthy operand, else the last operand
RECURSIVE OrChain(_)
OrChain(xs) ==
    IF Len(xs) = 1 THEN xs[1]
    ELSE IF Truthy(xs[1]) THEN xs[1] ELSE OrChain(Tail(xs))

\* a dict with no key
EmptyDict == [k \in {} |-> <<>>]

\* d[k] = v
DictSet(d, k, v) == [x \in (DOMAIN d) \cup {k} |-> IF x = k THEN v ELSE d[x]]

\* d.get(k, default)
Get(d, k, default) == IF k \in DOMAIN d THEN d[k] ELSE default

-----------------------------------------------------------------------------
(* str methods used by load_env_file. *)

IsSpace(c) == c \in {" ", "\t"}

RECURSIVE lstrip(_)
lstrip(s) == IF s # <<>> /\ IsSpace(Head(s)) THEN lstrip(Tail(s)) ELSE s

RECURSIVE rstrip(_)
rstrip(s) ==
    IF s # <<>> /\ IsSpace(s[Len(s)]) THEN rstrip(SubSeq(s, 1, Len(s) - 1)) ELSE s

strip(s) == rstrip(lstrip(s))

startswith(s, p) == Len(s) >= Len(p) /\ SubSeq(s, 1, Len(p)) = p

endswith(s, p) == Len(s) >= Len(p) /\ SubSeq(s, Len(s) - Len(p) + 1, Len(s)) = p

\* c in s, for a one-character c
Contains(s, c) == \E i \in 1..Len(s) : s[i] = c

\* s.replace(old, new): every non-overlapping occurrence, left to right
RECURSIVE replace(_, _, _)
replace(s, old, new) ==
    IF Len(s) < Len(old) THEN s
    ELSE IF startswith(s, old)
         THEN new \o replace(SubSeq(s, Len(old) + 1, Len(s)), old, new)
         ELSE <<Head(s)>> \o replace(Tail(s), old, new)

\* s.split(sep, 1) for a one-character sep: one part, or two parts cut at the first sep
split1(s, sep) ==
    IF Contains(s, sep)
    THEN LET i == CHOOSE j \in 1..Len(s) :
                      s[j] = sep /\ \A h \in 1..(j - 1) : s[h] # sep
         IN  <<SubSeq(s, 1, i - 1), SubSeq(s, i + 1, Len(s))>>
    ELSE <<s>>

\* value[1:-1]
StripEnds(value) == SubSeq(value, 2, Len(value) - 1)

S_export == <<"e", "x", "p", "o", "r", "t", " ">>

-----------------------------------------------------------------------------
(* load_env_file *)

\* the quote removal of a value
unquote(value) ==
    IF startswith(value, <<"\"">>) /\ endswith(value, <<"\"">>) THEN StripEnds(value)
    ELSE IF startswith(value, <<"'">>) /\ endswith(value, <<"'">>) THEN StripEnds(value)
    ELSE value

\* the separator chosen for a stripped line: '=' if present, else ':' if present, else None
separator(line) ==
    IF Contains(line, "=") THEN "=" ELSE IF Contains(line, ":") THEN ":" ELSE "None"

\* the 'export ' removal of a line
remove_export(line) == strip(replace(line, S_export, <<>>))

\* the body of the loop over the lines: env_vars after one raw line
parse_line(env_vars, raw) ==
    LET line == strip(raw) IN
    IF line = <<>> \/ startswith(line, <<"#">>) THEN env_vars
    ELSE LET sep == separator(line) IN
         IF sep = "None" THEN env_vars
         ELSE LET parts == split1(remove_export(line), sep) IN
              IF Len(parts) = 2
              THEN DictSet(env_vars, strip(parts[1]), unquote(strip(parts[2])))
              ELSE env_vars

RECURSIVE parse_lines(_, _)
parse_lines(env_vars, lines) ==
    IF lines = <<>> THEN env_vars
    ELSE parse_lines(parse_line(env_vars, Head(lines)), Tail(lines))

\* load_env_file(filepath) on the file system files: {} when the file does not exist
load_env_file(files, filepath) ==
    IF files[filepath].exists THEN parse_lines(EmptyDict, files[filepath].lines)
    ELSE EmptyDict

-----------------------------------------------------------------------------
(* get_api_credentials *)

K_CAUDENA_KID == <<"C", "A", "U", "D", "E", "N", "A", "_", "K", "I", "D">>
K_id_caudena == <<"i", "d", "_", "c", "a", "u", "d", "e", "n", "a">>
K_KID == <<"K", "I", "D">>
K_API_KID == <<"A", "P", "I", "_", "K", "I", "D">>
K_CAUDENA_API_KID ==
    <<"C", "A", "U", "D", "E", "N", "A", "_", "A", "P", "I", "_", "K", "I", "D">>
K_CAUDENA_SECRET ==
    <<"C", "A", "U", "D", "E", "N", "A", "_", "S", "E", "C", "R", "E", "T">>
K_secret == <<"s", "e", "c", "r", "e", "t">>
K_SECRET == <<"S", "E", "C", "R", "E", "T">>
K_API_SECRET == <<"A", "P", "I", "_", "S", "E", "C", "R", "E", "T">>
K_CAUDENA_API_SECRET ==
    <<"C", "A", "U", "D", "E", "N", "A", "_", "A", "P", "I", "_",
      "S", "E", "C", "R", "E", "T">>

\* the variants of the key names, in the order they are tried after the environment
kid_aliases == <<K_CAUDENA_KID, K_id_caudena, K_KID, K_API_KID, K_CAUDENA_API_KID>>
secret_aliases ==
    <<K_CAUDENA_SECRET, K_secret, K_SECRET, K_API_SECRET, K_CAUDENA_API_SECRET>>

\* the candidate files, in search order
env_files == <<".env", ".env.local", "script/.env">>

\* the loop over env_files: the variables of the first file that exists and yields any
RECURSIVE search_env_files(_, _)
search_env_files(files, paths) ==
    IF paths = <<>> THEN EmptyDict
    ELSE IF files[Head(paths)].exists
         THEN LET env_vars == load_env_file(files, Head(paths)) IN
              IF DOMAIN env_vars # {} THEN env_vars
              ELSE search_env_files(files, Tail(paths))
         ELSE search_env_files(files, Tail(paths))

\* resolve with the file's values tried before the environment's
resolve_file_first(envValue, env_vars, aliases) ==
    OrChain([i \in 1..Len(aliases) |-> Get(env_vars, aliases[i], None)] \o <<envValue>>)

\* os.getenv(name) or env_vars.get(alias1) or env_vars.get(alias2) ...
resolve(envValue, env_vars, aliases) ==
    OrChain(<<envValue>> \o [i \in 1..Len(aliases) |-> Get(env_vars, aliases[i], None)])

\* the three lines naming the accepted configuration sources
RemediationLines ==
    <<<<"Configura le credenziali in:">>,
      <<"- Variabili d'ambiente: CAUDENA_KID e CAUDENA_SECRET">>,
      <<"- File .env nella directory corrente">>,
      <<"- File .env.local nella directory corrente">>>>

\* get_api_credentials without the test of the secret
get_api_credentials_unchecked_secret(env, files) ==
    LET env_vars == search_env_files(files, env_files)
        kid == resolve(env.CAUDENA_KID, env_vars, kid_aliases)
        secret == resolve(env.CAUDENA_SECRET, env_vars, secret_aliases)
    IN  IF ~Truthy(kid)
        THEN [status |-> "exit", kid |-> None, secret |-> None,
              out |-> <<<<"Errore: CAUDENA_KID non trovato">>>> \o RemediationLines]
        ELSE [status |-> "return", kid |-> kid, secret |-> secret, out |-> <<>>]

\* get_api_credentials(): returns (kid, secret), or prints and calls sys.exit(1)
get_api_credentials(env, files) ==
    LET env_vars == search_env_files(files, env_files)
        kid == resolve(env.CAUDENA_KID, env_vars, kid_aliases)
        secret == resolve(env.CAUDENA_SECRET, env_vars, secret_aliases)
    IN  IF ~Truthy(kid)
        THEN [status |-> "exit", kid |-> None, secret |-> None,
              out |-> <<<<"Errore: CAUDENA_KID non trovato">>>> \o RemediationLines]
        ELSE IF ~Truthy(secret)
        THEN [status |-> "exit", kid |-> None, secret |-> None,
              out |-> <<<<"Errore: CAUDENA_SECRET non trovato">>>> \o RemediationLines]
        ELSE [status |-> "return", kid |-> kid, secret |-> secret, out |-> <<>>]

-----------------------------------------------------------------------------
(* generate_jwt_token *)

B64Alphabet ==
    {"A", "B", "C", "D", "E", "F", "G", "H", "I", "J", "K", "L", "M",
     "N", "O", "P", "Q", "R", "S", "T", "U", "V", "W", "X", "Y", "Z",
     "a", "b", "c", "d", "e", "f", "g", "h", "i", "j", "k", "l", "m",
     "n", "o", "p", "q", "r", "s", "t", "u", "v", "w", "x", "y", "z",
     "0", "1", "2", "3", "4", "5", "6", "7", "8", "9", "+", "/"}

\* base64.b64decode(s) succeeds (non-strict decoding: characters outside the
\* alphabet are skipped, a complete pad sequence ends the input, and the data
\* characters before the end must fill whole quads)
RECURSIVE b64decode_ok(_, _, _)
b64decode_ok(s, quad_pos, pads) ==
    IF s = <<>> THEN quad_pos = 0
    ELSE IF Head(s) = "="
         THEN IF quad_pos >= 2 /\ quad_pos + pads + 1 >= 4 THEN TRUE
              ELSE b64decode_ok(Tail(s), quad_pos,
                                IF quad_pos >= 2 THEN pads + 1 ELSE pads)
    ELSE IF Head(s) \in B64Alphabet
         THEN b64decode_ok(Tail(s), (quad_pos + 1) % 4, 0)
    ELSE b64decode_ok(Tail(s), quad_pos, pads)

\* minutes until the token expires
TokenLifetimeMinutes == 5

\* the token variable before generate_jwt_token returns
NoToken == [kid |-> None, key |-> None, exp |-> 0]

\* generate_jwt_token(kid, secret_b64): the token, or prints and calls sys.exit(1)
generate_jwt_token(kid, secret_b64) ==
    IF b64decode_ok(secret_b64, 0, 0)
    THEN [status |-> "return", out |-> <<>>,
          token |-> [kid |-> kid, key |-> secret_b64, exp |-> TokenLifetimeMinutes]]
    ELSE [status |-> "exit", out |-> <<<<"Errore nel decodificare il secret">>>>,
          token |-> NoToken]

-----------------------------------------------------------------------------
(* JSON values whose type the code does not check before using them carry
   their type: a dict (val: the function of its keys), a list (val: the
   sequence) or null. *)

JDict(d) == [json |-> "dict", val |-> d]
JList(l) == [json |-> "list", val |-> l]
JNull == [json |-> "null", val |-> <<>>]

\* truthiness of a JSON value: an empty dict, an empty list and None are falsy
JTruthy(v) ==
    \/ v.json = "dict" /\ DOMAIN v.val # {}
    \/ v.json = "list" /\ v.val # <<>>

\* str.upper() of the currency names and of the placeholders
upper(str) ==
    CASE str = "btc" -> "BTC"
      [] str = "eth" -> "ETH"
      [] OTHER -> str

-----------------------------------------------------------------------------
(* Printing.  A printed line is a tuple whose first element names the line
   and whose other elements are the values formatted into it.  A formatter
   yields [out, exc]: the lines printed, and the exception that ended it
   ("none" when it ran to completion); the lines printed before an exception
   stay printed. *)

NoOutput == [out |-> <<>>, exc |-> "none"]

Lines(ls) == [out |-> ls, exc |-> "none"]

Raise(e) == [out |-> <<>>, exc |-> e]

\* r, and then s if r did not raise
AndThen(r, s) ==
    IF r.exc # "none" THEN r ELSE [out |-> r.out \o s.out, exc |-> s.exc]

\* f"{x:,}" and f"{x:,.2f}" of the integers below 1000 the payloads carry: the
\* digits (followed by .00 in the second form)
Comma(x) == ToString(x)

\* format_timestamp: "N/A" when the timestamp is falsy, else the date text of it
\* (the payloads carry timestamps datetime.fromtimestamp accepts, so the except
\* branch is not taken; the date text is stood for by the digits)
format_timestamp(timestamp) ==
    IF timestamp = 0 THEN "N/A" ELSE ToString(timestamp)

\* entries shown of an input or output list
MaxShown == 3
\* characters shown of an address
AddrPrefixLen == 20
\* scores below this one are suspicious
SuspiciousBelow == 4
\* transactions summarised of an address
MaxSummaries == 5

S_NA == <<"N", "/", "A">>

\* xs[:n]
Take(xs, n) == SubSeq(xs, 1, IF Len(xs) < n THEN Len(xs) ELSE n)

\* the line of entry number i of the inputs or outputs
entry_line(label, i, inp) ==
    <<label, ToString(i),
      Take(Get(inp, "address", S_NA), AddrPrefixLen),
      Comma(Get(inp, "amount", 0)),
      Comma(Get(inp, "amount_usd", 0)),
      IF "score" \in DOMAIN inp THEN ToString(inp.score) ELSE "N/A",
      Get(inp, "name", "Unidentified")>>

\* data['inputs'][:3]
shown_entries(entries) == Take(entries, MaxShown)

\* has_more with the comparison off by one
has_more_from_three(entries) == Len(entries) >= MaxShown

\* len(data['inputs']) > 3
has_more(entries) == Len(entries) > MaxShown

\* the Inputs (or Outputs) section: a title, the first MaxShown entries, and the
\* count of the others when there are more
entries_section(data, key, label) ==
    IF key \in DOMAIN data /\ data[key] # <<>>
    THEN LET shown == shown_entries(data[key]) IN
         Lines(<<<<label \o "s", ToString(Len(data[key]))>>>>
               \o [i \in 1..Len(shown) |-> entry_line(label, i, shown[i])]
               \o (IF has_more(data[key])
                   THEN <<<<"altri " \o label, ToString(Len(data[key]) - MaxShown)>>>>
                   ELSE <<>>))
    ELSE NoOutput

\* "if score and score < 4" with score = inp.get('score', 'N/A'): the default
\* 'N/A' is a non-empty str, and comparing it with 4 raises TypeError
score_test(inp) ==
    IF "score" \notin DOMAIN inp THEN "TypeError"
    ELSE IF inp.score # 0 /\ inp.score < SuspiciousBelow THEN "suspicious"
    ELSE "pass"

\* the loop of the contract analysis over one list: [out, exc, found]
RECURSIVE contract_scan(_, _, _)
contract_scan(entries, label, acc) ==
    IF entries = <<>> THEN acc
    ELSE LET inp == Head(entries) IN
         IF Get(inp, "contract", FALSE)
         THEN LET t == score_test(inp) IN
              IF t = "TypeError" THEN [acc EXCEPT !.exc = "TypeError"]
              ELSE IF t = "suspicious"
              THEN contract_scan(Tail(entries), label,
                      [out |-> acc.out \o
                          <<<<"CONTRACT SOSPETTO", label, Get(inp, "address", S_NA)>>,
                            <<"Score", ToString(inp.score),
                              Get(inp, "name", "Unidentified")>>>>,
                       exc |-> "none", found |-> TRUE])
              ELSE contract_scan(Tail(entries), label, acc)
         ELSE contract_scan(Tail(entries), label, acc)

\* the entries of data[key] the contract analysis goes through
scanned(data, key) ==
    IF key \in DOMAIN data /\ data[key] # <<>> THEN data[key] ELSE <<>>

\* the contract analysis: the title, a warning per suspicious contract of the
\* inputs and then of the outputs, and the confirmation line when none was found
contract_analysis(data) ==
    LET a == contract_scan(scanned(data, "inputs"), "Input",
                           [out |-> <<<<"ANALISI CONTRACT">>>>, exc |-> "none",
                            found |-> FALSE])
        b == IF a.exc # "none" THEN a
             ELSE contract_scan(scanned(data, "outputs"), "Output", a)
    IN  IF b.exc # "none" THEN [out |-> b.out, exc |-> b.exc]
        ELSE [out |-> b.out \o
                      (IF ~b.found
                       THEN <<<<"Nessun contract sospetto rilevato">>>> ELSE <<>>)
                      \o <<<<"====">>>>,
              exc |-> "none"]

\* the lines after the title of the transaction detail: identification, status, amounts
detail_header(data) ==
    Lines(<<<<"Hash", Get(data, "hash", S_NA)>>,
            <<"Status", IF Get(data, "status", FALSE) THEN "Confermata" ELSE "In attesa">>,
            <<"Currency", upper(Get(data, "currency", "N/A"))>>,
            <<"Timestamp", format_timestamp(Get(data, "time", 0))>>,
            <<"Block Height",
              IF "height" \in DOMAIN data THEN ToString(data.height) ELSE "N/A">>,
            <<"Confirmations", Comma(Get(data, "confirmations", 0))>>,
            <<"Amount",
              IF "amount" \in DOMAIN data THEN ToString(data.amount) ELSE "N/A">>,
            <<"Amount USD", Comma(Get(data, "amount_usd", 0))>>,
            <<"Fee", IF "fee" \in DOMAIN data THEN ToString(data.fee) ELSE "N/A">>,
            <<"Fee USD", Comma(Get(data, "fee_usd", 0))>>>>)

\* print_transaction_details(data), for payloads with no "gas" and no "tokens"
\* key (their two sections then print nothing); data.get on a value that is
\* not a dict raises AttributeError, after the title
print_transaction_details(data) ==
    AndThen(Lines(<<<<"DETTAGLI TRANSAZIONE">>>>),
      IF data.json # "dict" THEN Raise("AttributeError")
      ELSE AndThen(AndThen(AndThen(detail_header(data.val),
                                   entries_section(data.val, "inputs", "Input")),
                           entries_section(data.val, "outputs", "Output")),
                   contract_analysis(data.val)))

-----------------------------------------------------------------------------
(* print_transaction_summary, print_address_stats *)

\* print_transaction_summary(tx)
print_transaction_summary(tx) ==
    IF tx.json # "dict" THEN Raise("AttributeError")
    ELSE LET t == tx.val
             out == Get(t, "direction", "N/A") = "out"
         IN Lines(<<<<"Hash", Take(Get(t, "hash", S_NA), AddrPrefixLen)>>,
                    <<"Time", format_timestamp(Get(t, "time", 0))>>,
                    <<"Direction", Get(t, "direction", "N/A")>>,
                    <<"Amount",
                      Comma(Get(t, IF out THEN "total_out" ELSE "total_in", 0))>>,
                    <<"Amount USD",
                      Comma(Get(t, IF out THEN "total_out_usd" ELSE "total_in_usd", 0))>>,
                    <<"Fee", Comma(Get(t, "fee", 0)), Comma(Get(t, "fee_usd", 0))>>,
                    <<"Confirmations", Comma(Get(t, "confirmations", 0))>>>>)

\* the three lines of a balance block: title is printed, then sub.get raises
\* AttributeError when sub is not a dict
balance_block(title, sub) ==
    AndThen(Lines(<<<<title>>>>),
      IF sub.json # "dict" THEN Raise("AttributeError")
      ELSE Lines(<<<<"Current", Comma(Get(sub.val, "balance", 0))>>,
                   <<"Total In", Comma(Get(sub.val, "total_in", 0))>>,
                   <<"Total Out", Comma(Get(sub.val, "total_out", 0))>>>>))

\* print_address_stats(data)
print_address_stats(data) ==
    AndThen(Lines(<<<<"STATISTICHE INDIRIZZO">>>>),
      IF data.json # "dict" THEN Raise("AttributeError")
      ELSE LET d == data.val
               trx_count == Get(d, "trx_count", JDict(EmptyDict))
               entity == Get(d, "entity", JNull)
           IN
           AndThen(Lines(<<<<"Address", Get(d, "address", S_NA)>>>>),
           AndThen(balance_block("Balance", Get(d, "balance", JDict(EmptyDict))),
           AndThen(balance_block("Balance USD", Get(d, "balance_usd", JDict(EmptyDict))),
           AndThen(Lines(<<<<"Transazioni">>>>),
           AndThen(IF trx_count.json # "dict" THEN Raise("AttributeError")
                   ELSE Lines(<<<<"Incoming", Comma(Get(trx_count.val, "in", 0))>>,
                                <<"Outgoing", Comma(Get(trx_count.val, "out", 0))>>>>),
           AndThen(IF JTruthy(entity)
                   THEN Lines(<<<<"Entity">>,
                                <<"Name", Get(entity.val, "name", "N/A")>>,
                                <<"Category", Get(entity.val, "category", "N/A")>>>>)
                   ELSE NoOutput,
                   Lines(<<<<"Score",
                             IF "score" \in DOMAIN d THEN ToString(d.score) ELSE "N/A">>,
                           <<"First Seen", format_timestamp(Get(d, "first_seen", 0))>>,
                           <<"Last Seen", format_timestamp(Get(d, "last_seen", 0))>>>>)
           )))))))

-----------------------------------------------------------------------------
(* make_api_request *)

\* the status code of a successful response
HttpOk == 200

\* make_api_request(method, endpoint, token, data) when the remote end answers
\* resp: [exc, out, result].  exc is "none" when it returns result (the parsed
\* body), "SystemExit" after sys.exit(1), else the exception it lets through.
\* resp.net is "ok" when a response arrived, else the requests exception raised
\* (a RequestException); resp.json_error is what response.json() raises on this
\* body: "none", "ValueError", or "RequestException" where the installed
\* requests raises its own JSONDecodeError.
make_api_request(method, resp) ==
    IF method \notin {"GET", "POST"}
    THEN [exc |-> "ValueError", out |-> <<>>, result |-> JNull]
    ELSE IF resp.net # "ok"
    THEN [exc |-> "SystemExit", out |-> <<<<"Errore nella richiesta", resp.net>>>>,
          result |-> JNull]
    ELSE IF resp.status_code # HttpOk
    THEN [exc |-> "SystemExit",
          out |-> <<<<"Errore HTTP", ToString(resp.status_code),
                      IF resp.json_error = "none" THEN "error_data" ELSE "text">>>>,
          result |-> JNull]
    ELSE IF resp.json_error = "RequestException"
    THEN [exc |-> "SystemExit",
          out |-> <<<<"Errore nella richiesta", "JSONDecodeError">>>>,
          result |-> JNull]
    ELSE IF resp.json_error # "none"
    THEN [exc |-> resp.json_error, out |-> <<>>, result |-> JNull]
    ELSE [exc |-> "none", out |-> <<>>, result |-> resp.body]

-----------------------------------------------------------------------------
(* check_transaction_by_hash *)

\* the lines printed before the request of a lookup
lookup_banner(what) == <<<<"Verifica " \o what>>, <<"Currency">>>>

\* hash_report without the test of data
hash_report_any_data(result) ==
    IF result.json # "dict" THEN Raise("AttributeError")
    ELSE IF Get(result.val, "status", FALSE)
         THEN print_transaction_details(Get(result.val, "data", JDict(EmptyDict)))
         ELSE Lines(<<<<"Transazione non trovata o errore nella risposta">>,
                      <<"Risposta">>>>)

\* the try body after the request returned result: result.get raises
\* AttributeError when the body is not a dict
hash_report(result) ==
    IF result.json # "dict" THEN Raise("AttributeError")
    ELSE IF Get(result.val, "status", FALSE)
         THEN LET data == Get(result.val, "data", JDict(EmptyDict)) IN
              IF JTruthy(data) THEN print_transaction_details(data)
              ELSE Lines(<<<<"Nessun dato nella risposta">>, <<"Risposta completa">>>>)
         ELSE Lines(<<<<"Transazione non trovata o errore nella risposta">>,
                      <<"Risposta">>>>)

\* check_transaction_by_hash from the answer of the request on: the try
\* statement, whose handlers pass on SystemExit and print any other exception
check_transaction_by_hash(resp) ==
    LET r == make_api_request("GET", resp)
        body == IF r.exc # "none" THEN [out |-> r.out, exc |-> r.exc]
                ELSE hash_report(r.result)
    IN  IF body.exc = "none" \/ body.exc = "SystemExit"
        THEN [out |-> body.out, exc |-> "none"]
        ELSE [out |-> body.out \o <<<<"Errore imprevisto", body.exc>>>>, exc |-> "none"]

-----------------------------------------------------------------------------
(* check_transaction_by_address *)

\* first_transactions without the slice
all_transactions(data) == data

\* tx_result.get("data", [])[:5]
first_transactions(data) == Take(data, MaxSummaries)

\* the loop over the transactions: a title, the summary and an empty line each
RECURSIVE summaries(_, _)
summaries(transactions, i) ==
    IF i > Len(transactions) THEN NoOutput
    ELSE AndThen(Lines(<<<<"--- Transazione", ToString(i)>>>>),
         AndThen(print_transaction_summary(transactions[i]),
         AndThen(Lines(<<<<"">>>>), summaries(transactions, i + 1))))

\* from the answer of the stats request to the transactions request
address_stats_part(resp) ==
    LET r == make_api_request("GET", resp) IN
    IF r.exc # "none" THEN [out |-> r.out, exc |-> r.exc]
    ELSE AndThen(
           IF r.result.json # "dict" THEN Raise("AttributeError")
           ELSE IF Get(r.result.val, "status", FALSE)
                THEN print_address_stats(Get(r.result.val, "data", JDict(EmptyDict)))
                ELSE NoOutput,
           Lines(<<<<"Ultime transazioni (prime 5):">>>>))

\* from the answer of the transactions request to the end
address_transactions_part(resp) ==
    LET r == make_api_request("POST", resp) IN
    IF r.exc # "none" THEN [out |-> r.out, exc |-> r.exc]
    ELSE IF r.result.json # "dict" THEN Raise("AttributeError")
    ELSE IF Get(r.result.val, "status", FALSE)
         THEN LET data == Get(r.result.val, "data", JList(<<>>))
                  pagination == Get(r.result.val, "pagination", JDict(EmptyDict))
              IN  IF data.json # "list" THEN Raise("TypeError")
                  ELSE IF pagination.json # "dict" THEN Raise("AttributeError")
                  ELSE AndThen(
                         Lines(<<<<"Totale transazioni",
                                   ToString(Get(pagination.val, "total_entries", 0))>>>>),
                         summaries(first_transactions(data.val), 1))
         ELSE Lines(<<<<"Nessuna transazione trovata">>>>)

-----------------------------------------------------------------------------
(* The inputs explored. *)

\* all sequences over S of length at most n
RECURSIVE SeqsUpTo(_, _)
SeqsUpTo(S, n) ==
    IF n = 0 THEN {<<>>}
    ELSE LET shorter == SeqsUpTo(S, n - 1) IN
         shorter \cup {Append(q, x) : q \in shorter, x \in S}

NoFile == [exists |-> FALSE, lines |-> <<>>]
File(lines) == [exists |-> TRUE, lines |-> lines]

V_Ek == <<"E", "k">>
V_Fk == <<"F", "k">>
V_Ak == <<"A", "k">>
V_ZW52 == <<"Z", "W", "5", "2">>
V_c2Vj == <<"c", "2", "V", "j">>
V_xyz == <<"x", "y", "z">>

\* the values of an environment variable: unset, empty, set
Environments ==
    [CAUDENA_KID : {None, <<>>, V_Ek}, CAUDENA_SECRET : {None, <<>>, V_ZW52}]

\* "# x": a file of comments yields no variable
F_comment == File(<<<<"#", " ", "x">>>>)
\* CAUDENA_KID=Fk and CAUDENA_SECRET=c2Vj
F_both == File(<<K_CAUDENA_KID \o <<"=">> \o V_Fk, K_CAUDENA_SECRET \o <<"=">> \o V_c2Vj>>)
\* export KID: 'Ak' and secret:xyz (xyz is not base64)
F_alias == File(<<S_export \o K_KID \o <<":", " ", "'">> \o V_Ak \o <<"'">>,
                  K_secret \o <<":">> \o V_xyz>>)
\* API_SECRET=c2Vj, no identifier
F_secret == File(<<K_API_SECRET \o <<"=">> \o V_c2Vj>>)

FileSystems ==
    {[p \in {".env", ".env.local", "script/.env"} |->
         CASE p = ".env" -> a [] p = ".env.local" -> b [] OTHER -> c] :
       a \in {NoFile, F_comment, F_both, F_alias, F_secret},
       b \in {NoFile, F_comment, F_both, F_alias, F_secret},
       c \in {NoFile, F_both}}

\* --- configuration lines of load_env_file's specification
EnvKeys == {<<"K">>, K_KID}
EnvValues == (SeqsUpTo({"a", "=", ":"}, MaxValLen) \ {<<>>}) \cup {S_export \o <<"a">>}

\* the line that spells key and value with this separator, export prefix, quote
\* and padding around the separator
Spell(key, value, sep, export, quote, pad) ==
    (IF export THEN S_export ELSE <<>>) \o key \o pad \o <<sep>> \o pad
        \o quote \o value \o quote

\* --- transaction payloads
Addr == <<"b", "c", "1">>

E_contract(score) ==
    [address |-> Addr, amount |-> 5, amount_usd |-> 7, score |-> score,
     name |-> "Mixer", contract |-> TRUE]
\* flagged as a contract, not rated
E_unrated == [address |-> Addr, contract |-> TRUE]
E_plain ==
    [address |-> Addr, amount |-> 5, amount_usd |-> 7, score |-> 2,
     name |-> "Exchange", contract |-> FALSE]
\* an entry with an address only
E_bare == [address |-> Addr]

EntryKinds == {E_contract(0), E_contract(3), E_contract(4), E_unrated, E_plain, E_bare}

NumericFields == {"confirmations", "amount", "amount_usd", "fee", "fee_usd"}

\* an "inputs" or "outputs" key: absent, or present with a list of at most n entries
AbsentList == [present |-> FALSE, list |-> <<>>]
EntryLists(n) == {[present |-> TRUE, list |-> q] : q \in SeqsUpTo(EntryKinds, n)}

\* a payload with the numeric fields num and the lists ins and outs
Payload(num, ins, outs) ==
    LET keys == num \cup {"hash", "status", "currency", "time"}
                    \cup (IF ins.present THEN {"inputs"} ELSE {})
                    \cup (IF outs.present THEN {"outputs"} ELSE {})
    IN  [k \in keys |->
            CASE k = "hash" -> <<"a", "b", "c">>
              [] k = "status" -> TRUE
              [] k = "currency" -> "btc"
              [] k = "time" -> 0
              [] k = "inputs" -> ins.list
              [] k = "outputs" -> outs.list
              [] OTHER -> 12]

\* --- answers of the remote end
Resp(net_, code, json_error, body) ==
    [net |-> net_, status_code |-> code, json_error |-> json_error, body |-> body]

Ok200(body) == Resp("ok", HttpOk, "none", body)

\* failures at the HTTP layer: no response, or a response that is not 200
HttpFailures ==
    {Resp("Timeout", 0, "none", JNull), Resp("ConnectionError", 0, "none", JNull),
     Resp("ok", 404, "none", JDict([error |-> "not found"])),
     Resp("ok", 500, "ValueError", JNull)}

\* 200 responses whose body is not JSON, or is JSON but not a dict
Unexpected200 ==
    {Resp("ok", HttpOk, "ValueError", JNull), Resp("ok", HttpOk, "RequestException", JNull),
     Ok200(JList(<<>>)), Ok200(JNull)}

\* the transaction of the detail scenario (4 inputs), one with an unrated
\* contract, one with nothing but a hash
HashPayloads ==
    {Payload(NumericFields,
             [present |-> TRUE, list |-> <<E_plain, E_contract(3), E_bare, E_plain>>],
             [present |-> TRUE, list |-> <<E_plain>>]),
     Payload({}, [present |-> TRUE, list |-> <<E_unrated>>], AbsentList),
     Payload({}, AbsentList, AbsentList)}

HashResponses ==
    HttpFailures \cup Unexpected200
    \cup {Ok200(JDict(EmptyDict)), Ok200(JDict([status |-> FALSE])),
          Ok200(JDict([status |-> TRUE])),
          Ok200(JDict([status |-> TRUE, data |-> JDict(EmptyDict)])),
          Ok200(JDict([status |-> TRUE, data |-> JNull])),
          Ok200(JDict([status |-> TRUE, data |-> JList(<<JNull>>)]))}
    \cup {Ok200(JDict([status |-> TRUE, data |-> JDict(d)])) : d \in HashPayloads}

StatsFull ==
    [address |-> Addr, blockchain |-> "btc",
     balance |-> JDict([balance |-> 1, total_in |-> 3, total_out |-> 2]),
     balance_usd |-> JDict([balance |-> 10, total_in |-> 30, total_out |-> 20]),
     trx_count |-> JDict([in |-> 2, out |-> 1]),
     entity |-> JDict([name |-> "Exchange", category |-> "exchange"]),
     score |-> 8, first_seen |-> 100, last_seen |-> 200]

StatsResponses ==
    HttpFailures \cup Unexpected200
    \cup {Ok200(JDict([status |-> FALSE])), Ok200(JDict([status |-> TRUE])),
          Ok200(JDict([status |-> TRUE, data |-> JDict(StatsFull)])),
          Ok200(JDict([status |-> TRUE, data |-> JDict([balance |-> JNull])])),
          Ok200(JDict([status |-> TRUE, data |-> JNull]))}

TxOut ==
    JDict([hash |-> <<"a", "b", "c">>, time |-> 100, direction |-> "out",
           total_out |-> 5, total_out_usd |-> 50, total_in |-> 0, total_in_usd |-> 0,
           fee |-> 1, fee_usd |-> 2, confirmations |-> 12])
TxBare == JDict(EmptyDict)

\* lists of up to MaxTx transactions of one kind, one of them possibly null
TxLists ==
    {[i \in 1..n |-> IF i = bad THEN JNull ELSE tx] :
        n \in 0..MaxTx, bad \in 0..MaxTx, tx \in {TxOut, TxBare}}

TxResponses ==
    HttpFailures \cup Unexpected200
    \cup {Ok200(JDict([status |-> FALSE])), Ok200(JDict([status |-> TRUE])),
          Ok200(JDict([status |-> TRUE, data |-> JDict(EmptyDict)])),
          Ok200(JDict([status |-> TRUE, data |-> JList(<<TxOut>>), pagination |-> JNull]))}
    \cup {Ok200(JDict([status |-> TRUE, data |-> JList(txs)])) : txs \in TxLists}
    \cup {Ok200(JDict([status |-> TRUE, data |-> JList(txs),
                       pagination |-> JDict([total_entries |-> 42])])) : txs \in TxLists}

-----------------------------------------------------------------------------
(* main(): the process, from the parsed arguments on. *)

NoCreds == [status |-> "pending", kid |-> None, secret |-> None, out |-> <<>>]

Init ==
    /\ mode \in {"hash", "address"}
    /\ environ \in Environments
    /\ fs \in FileSystems
    /\ pc = "auth"
    /\ creds = NoCreds
    /\ token = NoToken
    /\ net = <<>>
    /\ stdout = <<>>
    /\ exitCode = 0
    /\ exc = "none"
    /\ arg = <<>>
    /\ ret = <<>>

\* the process ends: with status 0, or 1 after sys.exit(1) or an uncaught exception
Finish(e) ==
    /\ pc' = "done"
    /\ exc' = e
    /\ exitCode' = IF e = "none" THEN 0 ELSE 1

\* print("Autenticazione..."); kid, secret = get_api_credentials()
GetCredentials ==
    /\ pc = "auth"
    /\ LET r == get_api_credentials(environ, fs) IN
       /\ creds' = r
       /\ stdout' = stdout \o <<<<"Autenticazione...">>>> \o r.out
       /\ IF r.status = "exit" THEN Finish("SystemExit")
          ELSE pc' = "token" /\ UNCHANGED <<exc, exitCode>>
    /\ UNCHANGED <<mode, environ, fs, token, net, arg, ret>>

\* token = generate_jwt_token(kid, secret); print("Token generato con successo")
GenerateToken ==
    /\ pc = "token"
    /\ LET r == generate_jwt_token(creds.kid, creds.secret) IN
       /\ token' = r.token
       /\ IF r.status = "exit"
          THEN stdout' = stdout \o r.out /\ Finish("SystemExit")
          ELSE /\ stdout' = stdout \o <<<<"Token generato con successo">>>>
               /\ pc' = "lookup"
               /\ UNCHANGED <<exc, exitCode>>
    /\ UNCHANGED <<mode, environ, fs, creds, net, arg, ret>>

Request(method, endpoint) ==
    [ev |-> "request", method |-> method, endpoint |-> endpoint, bearer |-> token]

Response(endpoint, resp) == [ev |-> "response", endpoint |-> endpoint, resp |-> resp]

\* check_transaction_by_hash up to the GET of the transaction
HashRequest ==
    /\ pc = "lookup" /\ mode = "hash"
    /\ stdout' = stdout \o lookup_banner("transazione")
    /\ net' = Append(net, Request("GET", "transaction"))
    /\ pc' = "hash_wait"
    /\ UNCHANGED <<mode, environ, fs, creds, token, exitCode, exc, arg, ret>>

\* the answer arrives; check_transaction_by_hash and main run to the end
HashResponse ==
    /\ pc = "hash_wait"
    /\ \E resp \in HashResponses :
         LET r == check_transaction_by_hash(resp) IN
         /\ net' = Append(net, Response("transaction", resp))
         /\ stdout' = stdout \o r.out
         /\ Finish(r.exc)
    /\ UNCHANGED <<mode, environ, fs, creds, token, arg, ret>>

\* check_transaction_by_address up to the GET of the address stats
StatsRequest ==
    /\ pc = "lookup" /\ mode = "address"
    /\ stdout' = stdout \o lookup_banner("indirizzo")
    /\ net' = Append(net, Request("GET", "address/stats"))
    /\ pc' = "stats_wait"
    /\ UNCHANGED <<mode, environ, fs, creds, token, exitCode, exc, arg, ret>>

\* the stats answer arrives; the function runs up to the POST of the transactions
StatsResponse ==
    /\ pc = "stats_wait"
    /\ \E resp \in StatsResponses :
         LET r == address_stats_part(resp) IN
         /\ stdout' = stdout \o r.out
         /\ IF r.exc # "none"
            THEN net' = Append(net, Response("address/stats", resp)) /\ Finish(r.exc)
            ELSE /\ net' = net \o <<Response("address/stats", resp),
                                    Request("POST", "address/transactions")>>
                 /\ pc' = "tx_wait"
                 /\ UNCHANGED <<exc, exitCode>>
    /\ UNCHANGED <<mode, environ, fs, creds, token, arg, ret>>

\* the transactions answer arrives; the function and main run to the end
TransactionsResponse ==
    /\ pc = "tx_wait"
    /\ \E resp \in TxResponses :
         LET r == address_transactions_part(resp) IN
         /\ net' = Append(net, Response("address/transactions", resp))
         /\ stdout' = stdout \o r.out
         /\ Finish(r.exc)
    /\ UNCHANGED <<mode, environ, fs, creds, token, arg, ret>>

Next ==
    \/ GetCredentials
    \/ GenerateToken
    \/ HashRequest
    \/ HashResponse
    \/ StatsRequest
    \/ StatsResponse
    \/ TransactionsResponse

Spec == Init /\ [][Next]_vars

-----------------------------------------------------------------------------
(* load_env_file applied to a file of one line. *)

InitEnv ==
    /\ \E key \in EnvKeys, value \in EnvValues, sep \in {"=", ":"}, export \in BOOLEAN,
          quote \in {<<>>, <<"'">>, <<"\"">>}, pad \in {<<>>, <<" ">>} :
         /\ arg = [key |-> key, value |-> value, sep |-> sep]
         /\ fs = [p \in {".env"} |-> File(<<Spell(key, value, sep, export, quote, pad)>>)]
    /\ pc = "load"
    /\ ret = EmptyDict
    /\ mode = "none" /\ environ = <<>> /\ creds = NoCreds /\ token = NoToken
    /\ net = <<>> /\ stdout = <<>> /\ exitCode = 0 /\ exc = "none"

LoadEnvFile ==
    /\ pc = "load"
    /\ ret' = load_env_file(fs, ".env")
    /\ pc' = "loaded"
    /\ UNCHANGED <<mode, environ, fs, creds, token, net, stdout, exitCode, exc, arg>>

SpecEnv == InitEnv /\ [][LoadEnvFile]_vars

-----------------------------------------------------------------------------
(* print_transaction_details applied to a payload. *)

\* payloads with any subset of the numeric fields and lists of at most one
\* entry, and payloads with one list of up to MaxEntries entries
InitDetail ==
    /\ \/ \E num \in SUBSET NumericFields,
             ins \in EntryLists(1) \cup {AbsentList},
             outs \in EntryLists(1) \cup {AbsentList} :
               arg = JDict(Payload(num, ins, outs))
       \/ \E ins \in EntryLists(MaxEntries), outs \in EntryLists(1) :
               arg = JDict(Payload(NumericFields, ins, outs))
       \/ \E ins \in EntryLists(1), outs \in EntryLists(MaxEntries) :
               arg = JDict(Payload(NumericFields, ins, outs))
    /\ pc = "format"
    /\ ret = <<>>
    /\ mode = "none" /\ environ = <<>> /\ fs = <<>> /\ creds = NoCreds /\ token = NoToken
    /\ net = <<>> /\ stdout = <<>> /\ exitCode = 0 /\ exc = "none"

FormatDetail ==
    /\ pc = "format"
    /\ LET r == print_transaction_details(arg) IN
       stdout' = r.out /\ exc' = r.exc
    /\ pc' = "formatted"
    /\ UNCHANGED <<mode, environ, fs, creds, token, net, exitCode, arg, ret>>

SpecDetail == InitDetail /\ [][FormatDetail]_vars

-----------------------------------------------------------------------------
(* Properties. *)

\* the positions of the printed lines named tag
LinesNamed(tag) == {i \in 1..Len(stdout) : stdout[i][1] = tag}

\* the process made a request and its last exchange ended with the answer resp
LastResponse == net[Len(net)].resp
Answered == net # <<>> /\ net[Len(net)].ev = "response"

\* resp failed at the HTTP layer: no response, or a status that is not 200
IsHttpFailure(resp) == resp.net # "ok" \/ resp.status_code # HttpOk

\* resp is a 200 response with a JSON body
IsJson200(resp) == resp.net = "ok" /\ resp.status_code = HttpOk /\ resp.json_error = "none"

\* C1: whenever the last HTTP call of a finished run failed at the HTTP layer,
\* the diagnostic is the last thing printed (no report follows) and the exit
\* code is not 0, in both modes.
C1_HttpFailureIsFatal ==
    (pc = "done" /\ Answered /\ IsHttpFailure(LastResponse))
        => /\ exitCode # 0
           /\ stdout[Len(stdout)][1] \in {"Errore HTTP", "Errore nella richiesta"}

\* resp is a 200 response whose body is a dict with a falsy status, or with a
\* true status and an empty (or no) data payload
IsNotFound(resp) ==
    /\ IsJson200(resp)
    /\ resp.body.json = "dict"
    /\ \/ ~Get(resp.body.val, "status", FALSE)
       \/ ~JTruthy(Get(resp.body.val, "data", JDict(EmptyDict)))

\* C2: in hash mode, a 200 response with status false, or with status true and
\* an empty data payload, ends the run with the not-found (or no-data) message
\* printed, no transaction detail printed, and exit code 0.
C2_NotFoundExitsZero ==
    (pc = "done" /\ mode = "hash" /\ Answered /\ IsNotFound(LastResponse))
        => /\ exitCode = 0
           /\ LinesNamed("DETTAGLI TRANSAZIONE") = {}
           /\ stdout[Len(stdout) - 1][1] =
                 (IF Get(LastResponse.body.val, "status", FALSE)
                  THEN "Nessun dato nella risposta"
                  ELSE "Transazione non trovata o errore nella risposta")

C2_Witness ==
    /\ pc = "done" /\ mode = "hash" /\ Answered
    /\ LastResponse = Ok200(JDict([status |-> FALSE]))
    /\ exitCode = 0
    /\ LinesNamed("Transazione non trovata o errore nella risposta") # {}

\* the credential is in no source: falsy in the environment, and under none of
\* its names in any candidate file
MissingEverywhere(envValue, aliases) ==
    /\ ~Truthy(envValue)
    /\ \A p \in DOMAIN fs : \A i \in 1..Len(aliases) :
          ~Truthy(Get(load_env_file(fs, p), aliases[i], None))

MissingKid == MissingEverywhere(environ.CAUDENA_KID, kid_aliases)
MissingSecret == MissingEverywhere(environ.CAUDENA_SECRET, secret_aliases)

\* C3: every request issued carries the token generated from credentials that
\* were both resolved; and when the identifier or the secret is in no source,
\* the process has, once past get_api_credentials, printed the message of the
\* missing credential and exited with a non-zero code without any request.
C3_NoRequestBeforeAuth ==
    /\ \A i \in 1..Len(net) :
          net[i].ev = "request"
              => /\ creds.status = "return"
                 /\ Truthy(creds.kid) /\ Truthy(creds.secret)
                 /\ token # NoToken
                 /\ net[i].bearer = token
                 /\ token.kid = creds.kid
    /\ (pc # "auth" /\ (MissingKid \/ MissingSecret))
          => /\ pc = "done" /\ exitCode # 0 /\ net = <<>>
             /\ LinesNamed(IF MissingKid THEN "Errore: CAUDENA_KID non trovato"
                           ELSE "Errore: CAUDENA_SECRET non trovato") # {}
             /\ LinesNamed("Configura le credenziali in:") # {}

C3_Witness ==
    /\ pc = "done" /\ mode = "address"
    /\ Truthy(environ.CAUDENA_KID) /\ MissingSecret
    /\ exitCode = 1 /\ net = <<>>
    /\ LinesNamed("Errore: CAUDENA_SECRET non trovato") # {}

\* the stats payload is a dict whose sub-objects are dicts
IsStatsRecord(data) ==
    /\ data.json = "dict"
    /\ \A k \in {"balance", "balance_usd", "trx_count"} :
          k \in DOMAIN data.val => data.val[k].json = "dict"

\* both answers of an address lookup are 200 with status true, the stats data a
\* stats record, the transactions data a list whose summarised entries are
\* transaction records, and the pagination carrying total_entries
IsAddressSuccess(stats, txs) ==
    /\ IsJson200(stats) /\ stats.body.json = "dict"
    /\ Get(stats.body.val, "status", FALSE)
    /\ IsStatsRecord(Get(stats.body.val, "data", JDict(EmptyDict)))
    /\ IsJson200(txs) /\ txs.body.json = "dict"
    /\ Get(txs.body.val, "status", FALSE)
    /\ "data" \in DOMAIN txs.body.val /\ txs.body.val.data.json = "list"
    /\ \A i \in 1..Len(txs.body.val.data.val) :
          i <= 5 => txs.body.val.data.val[i].json = "dict"
    /\ "pagination" \in DOMAIN txs.body.val /\ txs.body.val.pagination.json = "dict"
    /\ "total_entries" \in DOMAIN txs.body.val.pagination.val

\* C6: the transactions request is only ever the third exchange event, after
\* the stats request and its answer; and when both answers are successes with n
\* transactions and total_entries T, the run prints the stats block, then
\* "Totale transazioni: T", then exactly min(n, 5) summaries, and exits with 0.
C6_StatsThenTransactions ==
    /\ \A i \in 1..Len(net) :
          (net[i].ev = "request" /\ net[i].endpoint = "address/transactions")
              => /\ i = 3
                 /\ net[1] = Request("GET", "address/stats")
                 /\ net[2].ev = "response" /\ net[2].endpoint = "address/stats"
    /\ (pc = "done" /\ Len(net) = 4 /\ IsAddressSuccess(net[2].resp, net[4].resp))
          => LET n == Len(net[4].resp.body.val.data.val)
                 T == net[4].resp.body.val.pagination.val.total_entries
                 shown == IF n < 5 THEN n ELSE 5
             IN  /\ exc = "none" /\ exitCode = 0
                 /\ Cardinality(LinesNamed("STATISTICHE INDIRIZZO")) = 1
                 /\ Cardinality(LinesNamed("Totale transazioni")) = 1
                 /\ \A i \in LinesNamed("Totale transazioni") :
                       /\ stdout[i] = <<"Totale transazioni", ToString(T)>>
                       /\ \A j \in LinesNamed("STATISTICHE INDIRIZZO")
                                     \cup LinesNamed("Last Seen") : j < i
                       /\ \A j \in LinesNamed("--- Transazione")
                                     \cup LinesNamed("Direction") : i < j
                 /\ Cardinality(LinesNamed("--- Transazione")) = shown
                 /\ Cardinality(LinesNamed("Direction")) = shown

C6_Witness ==
    /\ pc = "done" /\ Len(net) = 4
    /\ IsAddressSuccess(net[2].resp, net[4].resp)
    /\ Len(net[4].resp.body.val.data.val) > 5
    /\ Cardinality(LinesNamed("--- Transazione")) = 5
    /\ LinesNamed("STATISTICHE INDIRIZZO") # {}

\* what get_api_credentials does for a credential the environment gives as
\* envValue: when it returns, it returns envValue for it, and when it exits,
\* it is not for want of this credential
ReturnsEnvValue(envValue, field, missingLine) ==
    /\ creds.status = "return" => creds[field] = envValue
    /\ creds.status = "exit" => creds.out[1] # <<missingLine>>

\* C7 (as amended): a credential whose environment variable is set to a
\* non-empty value is taken from the environment, whatever the files hold.
C7_NonEmptyEnvWins ==
    creds.status # "pending"
        => /\ Truthy(environ.CAUDENA_KID)
                => ReturnsEnvValue(environ.CAUDENA_KID, "kid",
                                   "Errore: CAUDENA_KID non trovato")
           /\ Truthy(environ.CAUDENA_SECRET)
                => ReturnsEnvValue(environ.CAUDENA_SECRET, "secret",
                                   "Errore: CAUDENA_SECRET non trovato")

\* C7 (as claimed): a credential whose environment variable is set, to any
\* value, is returned from the environment, whatever the files hold.
C7_SetEnvWins ==
    creds.status = "return"
        => /\ environ.CAUDENA_KID # None => creds.kid = environ.CAUDENA_KID
           /\ environ.CAUDENA_SECRET # None => creds.secret = environ.CAUDENA_SECRET

C7_Witness ==
    /\ creds.status = "return"
    /\ fs[".env"] = F_comment /\ fs[".env.local"] = F_alias
    /\ environ.CAUDENA_KID = V_Ek /\ environ.CAUDENA_SECRET = V_ZW52
    /\ creds.kid = V_Ek /\ creds.secret = V_ZW52

\* C9: a finished run whose last answer was a 200 response with a JSON body
\* (so that whatever failed afterwards was an unexpected error of the lookup)
\* let no exception out of the lookup function and exits with 0, in both modes.
C9_UnexpectedErrorIsCaught ==
    (pc = "done" /\ Answered /\ IsJson200(LastResponse))
        => exc = "none" /\ exitCode = 0

\* C8: load_env_file yields exactly {key: value} from the line spelling key and
\* value, whatever the separator, the export prefix, the quotes and the padding.
C8_SpellingsAgree ==
    pc = "loaded" => ret = DictSet(EmptyDict, arg.key, arg.value)

\* the list of the payload under key ("inputs", "outputs"), empty when absent
EntriesOf(key) == IF key \in DOMAIN arg.val THEN arg.val[key] ELSE <<>>

\* the printed lines named tag, in order
PrintedNamed(tag) ==
    LET Named(l) == l[1] = tag IN SelectSeq(stdout, Named)

\* C4: the detail formatter runs to completion on every payload, whichever
\* numeric and risk fields are absent (an unrated contract entry included).
C4_FormatterCompletes ==
    pc = "formatted" => exc = "none" /\ stdout[Len(stdout)] = <<"====">>

\* an entry flagged as a contract with a numeric score below 4
IsSuspicious(e) == Get(e, "contract", FALSE) /\ "score" \in DOMAIN e /\ e.score < 4

\* C5: when the formatter completes, it has printed one warning per entry of
\* the inputs and outputs that is a contract with a score below 4 (0 included),
\* and the confirmation line if and only if there is no such entry.
C5_WarningPerSuspiciousContract ==
    (pc = "formatted" /\ exc = "none")
        => LET n == Len(SelectSeq(EntriesOf("inputs") \o EntriesOf("outputs"),
                                  IsSuspicious))
           IN  /\ Cardinality(LinesNamed("CONTRACT SOSPETTO")) = n
               /\ LinesNamed("Nessun contract sospetto rilevato") # {} <=> n = 0

\* the lines of one list are the first min(n, 3) entries in order, and the line
\* counting the others is printed exactly when n > 3, with n - 3
ShowsFirstThree(key, label) ==
    LET list == EntriesOf(key)
        n == Len(list)
        shown == PrintedNamed(label)
        more == PrintedNamed("altri " \o label)
    IN  /\ Len(shown) = (IF n < 3 THEN n ELSE 3)
        /\ \A i \in 1..Len(shown) : shown[i] = entry_line(label, i, list[i])
        /\ more = (IF n > 3 THEN <<<<"altri " \o label, ToString(n - 3)>>>> ELSE <<>>)

\* C10: for the inputs and for the outputs, the formatter prints exactly the
\* first min(n, 3) entries in list order, and "... e altri n - 3" iff n > 3.
C10_ShowsFirstThree ==
    pc = "formatted"
        => ShowsFirstThree("inputs", "Input") /\ ShowsFirstThree("outputs", "Output")

C10_Witness ==
    /\ pc = "formatted"
    /\ Len(EntriesOf("inputs")) = 4
    /\ Len(PrintedNamed("Input")) = 3
    /\ PrintedNamed("altri Input") = <<<<"altri Input", "1">>>>

====
